---- MODULE Spec2Model ----
\* Model of Samples/AzureIoT/common/main.c: the application controller of the
\* simulated thermometer.  The main program is a sequential process whose
\* position is pc; the SIGTERM handler may run between any two of its steps
\* once sigaction has installed it; the callbacks run inside EventLoop_Run,
\* one per call (EventLoop_Run(eventLoop, -1, true) handles one event).
EXTENDS Integers, Sequences, FiniteSets, TLC

\* ---------------------------------------------------------------- bounds
\* Largest number of Button A presses counted in a run.
MaxButtonA == 2
\* Largest distance, in twentieths of a degree, the simulated temperature is
\* followed away from its initial value.
MaxDrift == 20
\* The file descriptor I2CMaster_Open returns when it succeeds.
OpenFd == 0
\* Largest number of ExitCodeCallbackHandler calls made while one event is
\* handled.
MaxReports == 2

\* ------------------------------------------------------- program constants
\* float delta = ((float)(rand() % 41)) / 20.0f - 1.0f;
RandModulus == 41
\* Temperatures are counted in units of 1/20 degree (the divisor 20.0f).
TempScale == 20
\* static Cloud_Telemetry telemetry = {.temperature = 50.f};
InitialDegrees == 50
InitialTemperature == InitialDegrees * TempScale

\* The rand() values drawn: both ends of rand() % 41, its middle and quarter
\* points, and the first value that wraps around.
RandDraws == {0, TempScale \div 2, TempScale, TempScale + TempScale \div 2,
              RandModulus - 1, RandModulus}

serialNumber == "TEMPMON-01234"

\* Exit codes (exitcodes.h). The ones main.c names:
ExitCode_Success == "ExitCode_Success"
ExitCode_TermHandler_SigTerm == "ExitCode_TermHandler_SigTerm"
ExitCode_Main_EventLoopFail == "ExitCode_Main_EventLoopFail"
ExitCode_TelemetryTimer_Consume == "ExitCode_TelemetryTimer_Consume"
ExitCode_Init_EventLoop == "ExitCode_Init_EventLoop"
ExitCode_Init_TelemetryTimer == "ExitCode_Init_TelemetryTimer"
ExitCode_Init_OpenMaster == "ExitCode_Init_OpenMaster"
ExitCode_Init_SetBusSpeed == "ExitCode_Init_SetBusSpeed"
ExitCode_Init_SetTimeout == "ExitCode_Init_SetTimeout"
ExitCode_Init_SetDefaultTarget == "ExitCode_Init_SetDefaultTarget"
\* Non-success codes the collaborators hand back; main.c passes them through
\* without naming them, so one representative each.
OptionsFailures == {"ExitCode_Validate_Options"}
UserInterfaceFailures == {"ExitCode_Init_UserInterface"}
CloudInitFailures == {"ExitCode_Init_Cloud"}
\* Codes reported at run time through ExitCodeCallbackHandler.
ReportedFailures == {"ExitCode_Reported_UserInterface", "ExitCode_Reported_Cloud"}

\* Cloud_Result
Cloud_Result_OK == "Cloud_Result_OK"
Cloud_Result_NoNetwork == "Cloud_Result_NoNetwork"
Cloud_Result_OtherFailure == "Cloud_Result_OtherFailure"
CloudResults == {Cloud_Result_OK, Cloud_Result_NoNetwork, Cloud_Result_OtherFailure}

\* UserInterface_Button
UserInterface_Button_A == "UserInterface_Button_A"
UserInterface_Button_B == "UserInterface_Button_B"
Buttons == {UserInterface_Button_A, UserInterface_Button_B}

\* errno values left by a failed EventLoop_Run
EINTR == "EINTR"
Errnos == {EINTR, "EBADF"}

VARIABLES
    pc,                     \* position of main
    exitCode,               \* static volatile sig_atomic_t exitCode
    isConnected,            \* static bool isConnected
    telemetryUploadEnabled, \* static bool telemetryUploadEnabled
    temperature,            \* telemetry.temperature, in twentieths of a degree
    eventLoop,              \* "NULL", "open" or "closed"
    telemetryTimer,         \* "NULL", "armed" or "disposed"
    i2cFd,                  \* -1 or the descriptor I2CMaster_Open returned
    indicator,              \* {the last value given to UserInterface_SetStatus} ({} before)
    sigInstalled,           \* sigaction(SIGTERM, ...) has run
    initResult,             \* value InitPeripheralsAndHandlers returns
    runResult,              \* the local result of the loop body ("none" outside it)
    errno,                  \* errno left by the last failed EventLoop_Run ("none" before)
    retval,                 \* value main returned ("none" while running)
    dispatched,             \* the handler EventLoop_Run invoked last ("none" before)
    calls,                  \* the calls that handler made, in order
    startup,                \* startup steps executed, in order
    failedStep,             \* the startup step that failed ("none" if none)
    acquired,               \* resources acquired, in order
    released,               \* release calls made by shutdown, in order
    sigDelivered,           \* history: TerminationHandler has run
    nButtonA,               \* history: Button A presses handled
    remoteChanged           \* history: a remote property change was handled

vars == <<pc, exitCode, isConnected, telemetryUploadEnabled, temperature,
          eventLoop, telemetryTimer, i2cFd, indicator, sigInstalled, initResult,
          runResult, errno, retval, dispatched, calls, startup, failedStep,
          acquired, released, sigDelivered, nButtonA, remoteChanged>>

\* The variables main's own steps leave alone unless they say otherwise.
deviceVars == <<isConnected, telemetryUploadEnabled, temperature>>
historyVars == <<dispatched, calls, sigDelivered, nButtonA, remoteChanged>>
loopVars == <<runResult, errno, retval>>
resourceVars == <<eventLoop, telemetryTimer, i2cFd, indicator>>

Init ==
    /\ pc = "ParseArgs"
    /\ exitCode = ExitCode_Success
    /\ isConnected = FALSE
    /\ telemetryUploadEnabled = FALSE
    /\ temperature = InitialTemperature
    /\ eventLoop = "NULL"
    /\ telemetryTimer = "NULL"
    /\ i2cFd = -1
    /\ indicator = {}
    /\ sigInstalled = FALSE
    /\ initResult = "none"
    /\ runResult = "none"
    /\ errno = "none"
    /\ retval = "none"
    /\ dispatched = "none"
    /\ calls = <<>>
    /\ startup = <<>>
    /\ failedStep = "none"
    /\ acquired = <<>>
    /\ released = <<>>
    /\ sigDelivered = FALSE
    /\ nButtonA = 0
    /\ remoteChanged = FALSE

\* ------------------------------------------------------------ signal handler
\* exitCode = ExitCode_TermHandler_SigTerm; runs between any two steps of main
\* from the moment sigaction has installed it until main returns.
TerminationHandler ==
    /\ sigInstalled
    /\ pc # "Done"
    /\ exitCode' = ExitCode_TermHandler_SigTerm
    /\ sigDelivered' = TRUE
    /\ UNCHANGED <<pc, deviceVars, resourceVars, sigInstalled, initResult, loopVars,
                   dispatched, calls, startup, failedStep, acquired, released,
                   nButtonA, remoteChanged>>

\* ------------------------------------------------------------------- main
\* exitCode = Options_ParseArgs(argc, argv); if (exitCode != ExitCode_Success) return exitCode;
ParseArgs(result) ==
    /\ pc = "ParseArgs"
    /\ exitCode' = result
    /\ IF result # ExitCode_Success
          THEN pc' = "Done" /\ retval' = result
          ELSE pc' = "Init_sigaction" /\ retval' = retval
    /\ UNCHANGED <<deviceVars, resourceVars, sigInstalled, initResult, runResult, errno,
                   historyVars, startup, failedStep, acquired, released>>

\* --------------------------------------------- InitPeripheralsAndHandlers
\* What no startup step touches.
initFrame == <<exitCode, deviceVars, loopVars, historyVars, released>>

\* A startup step that ran and succeeded: go on to the next one.
StepOk(step, next) ==
    /\ pc = step
    /\ pc' = next
    /\ startup' = Append(startup, step)
    /\ UNCHANGED <<initResult, failedStep>>

\* A startup step that ran and failed: return code, skipping the rest.
StepFail(step, code) ==
    /\ pc = step
    /\ pc' = "AssignInit"
    /\ startup' = Append(startup, step)
    /\ initResult' = code
    /\ failedStep' = step

\* sigaction(SIGTERM, &action, NULL); its result is not looked at.
Init_sigaction ==
    /\ StepOk("Init_sigaction", "Init_EventLoop_Create")
    /\ sigInstalled' = TRUE
    /\ UNCHANGED <<initFrame, resourceVars, acquired>>

\* eventLoop = EventLoop_Create(); NULL -> ExitCode_Init_EventLoop
Init_EventLoop_Create(ok) ==
    /\ IF ok
          THEN /\ StepOk("Init_EventLoop_Create", "Init_CreateTimer")
               /\ eventLoop' = "open"
               /\ acquired' = Append(acquired, "eventLoop")
          ELSE /\ StepFail("Init_EventLoop_Create", ExitCode_Init_EventLoop)
               /\ UNCHANGED <<eventLoop, acquired>>
    /\ UNCHANGED <<initFrame, telemetryTimer, i2cFd, indicator, sigInstalled>>

\* telemetryTimer = CreateEventLoopPeriodicTimer(...); NULL -> ExitCode_Init_TelemetryTimer
Init_CreateTimer(ok) ==
    /\ IF ok
          THEN /\ StepOk("Init_CreateTimer", "Init_UserInterface")
               /\ telemetryTimer' = "armed"
               /\ acquired' = Append(acquired, "telemetryTimer")
          ELSE /\ StepFail("Init_CreateTimer", ExitCode_Init_TelemetryTimer)
               /\ UNCHANGED <<telemetryTimer, acquired>>
    /\ UNCHANGED <<initFrame, eventLoop, i2cFd, indicator, sigInstalled>>

\* interfaceExitCode = UserInterface_Initialise(...); != Success -> return it;
\* then UserInterface_SetStatus(telemetryUploadEnabled).
Init_UserInterface(interfaceExitCode) ==
    /\ IF interfaceExitCode = ExitCode_Success
          THEN /\ StepOk("Init_UserInterface", "Init_I2COpen")
               /\ acquired' = Append(acquired, "UserInterface")
               /\ indicator' = {telemetryUploadEnabled}
          ELSE /\ StepFail("Init_UserInterface", interfaceExitCode)
               /\ UNCHANGED <<acquired, indicator>>
    /\ UNCHANGED <<initFrame, eventLoop, telemetryTimer, i2cFd, sigInstalled>>

\* i2cFd = I2CMaster_Open(SAMPLE_SHT31_I2C); -1 -> ExitCode_Init_OpenMaster
Init_I2COpen(fd) ==
    /\ i2cFd' = fd
    /\ IF fd # -1
          THEN /\ StepOk("Init_I2COpen", "Init_SetBusSpeed")
               /\ acquired' = Append(acquired, "i2c")
          ELSE /\ StepFail("Init_I2COpen", ExitCode_Init_OpenMaster)
               /\ UNCHANGED acquired
    /\ UNCHANGED <<initFrame, eventLoop, telemetryTimer, indicator, sigInstalled>>

\* One of the three I2C configuration calls: result != 0 -> return code.
I2CConfigure(step, next, result, code) ==
    /\ IF result = 0
          THEN StepOk(step, next)
          ELSE StepFail(step, code)
    /\ UNCHANGED <<initFrame, resourceVars, sigInstalled, acquired>>

Init_SetBusSpeed(result) ==
    I2CConfigure("Init_SetBusSpeed", "Init_SetTimeout", result, ExitCode_Init_SetBusSpeed)

Init_SetTimeout(result) ==
    I2CConfigure("Init_SetTimeout", "Init_SetDefaultTarget", result, ExitCode_Init_SetTimeout)

Init_SetDefaultTarget(result) ==
    I2CConfigure("Init_SetDefaultTarget", "Init_Cloud", result, ExitCode_Init_SetDefaultTarget)

\* return Cloud_Initialize(eventLoop, connectionContext, ...callbacks...);
Init_Cloud(result) ==
    /\ pc = "Init_Cloud"
    /\ pc' = "AssignInit"
    /\ startup' = Append(startup, "Init_Cloud")
    /\ initResult' = result
    /\ IF result = ExitCode_Success
          THEN acquired' = Append(acquired, "Cloud") /\ UNCHANGED failedStep
          ELSE failedStep' = "Init_Cloud" /\ UNCHANGED acquired
    /\ UNCHANGED <<initFrame, resourceVars, sigInstalled>>

\* Mutant: main drops the value InitPeripheralsAndHandlers returns.
AssignInit_Dropped ==
    /\ pc = "AssignInit"
    /\ pc' = "LoopCheck"
    /\ UNCHANGED <<exitCode, deviceVars, resourceVars, sigInstalled, initResult, loopVars,
                   historyVars, startup, failedStep, acquired, released>>

\* exitCode = InitPeripheralsAndHandlers();  (the store of the returned value)
AssignInit ==
    /\ pc = "AssignInit"
    /\ pc' = "LoopCheck"
    /\ exitCode' = initResult
    /\ UNCHANGED <<deviceVars, resourceVars, sigInstalled, initResult, loopVars,
                   historyVars, startup, failedStep, acquired, released>>

\* ------------------------------------------------------------ business logic
\* One call made by a handler: the function, its argument, what it returned
\* (an int result is recorded as its decimal text).
Call(op, arg, result) == [op |-> op, arg |-> arg, result |-> result]

\* Mutant: a failed echo puts the flag and the indicator back.
SetUploadEnabled_Rollback(uploadEnabled, result) ==
    /\ telemetryUploadEnabled' =
           IF result = Cloud_Result_OK THEN uploadEnabled ELSE telemetryUploadEnabled
    /\ indicator' = {telemetryUploadEnabled'}
    /\ calls' = <<Call("UserInterface_SetStatus", uploadEnabled, "void"),
                  Call("Cloud_SendThermometerTelemetryUploadEnabledChangedEvent",
                       uploadEnabled, result)>>

\* Mutant: the indicator is driven from the outcome of the echo.
SetUploadEnabled_StatusAfterEcho(uploadEnabled, result) ==
    /\ telemetryUploadEnabled' = uploadEnabled
    /\ indicator' = IF result = Cloud_Result_OK THEN {uploadEnabled} ELSE indicator
    /\ calls' = <<Call("UserInterface_SetStatus", uploadEnabled, "void"),
                  Call("Cloud_SendThermometerTelemetryUploadEnabledChangedEvent",
                       uploadEnabled, result)>>

\* telemetryUploadEnabled = uploadEnabled; UserInterface_SetStatus(uploadEnabled);
\* result = Cloud_SendThermometerTelemetryUploadEnabledChangedEvent(uploadEnabled);
\* a result other than OK is logged only.
SetThermometerTelemetryUploadEnabled(uploadEnabled, result) ==
    /\ telemetryUploadEnabled' = uploadEnabled
    /\ indicator' = {uploadEnabled}
    /\ calls' = <<Call("UserInterface_SetStatus", uploadEnabled, "void"),
                  Call("Cloud_SendThermometerTelemetryUploadEnabledChangedEvent",
                       uploadEnabled, result)>>

\* time(&now); result = Cloud_SendThermometerMovedEvent(now); a failure is logged only.
DeviceMoved(result) ==
    /\ calls' = <<Call("Cloud_SendThermometerMovedEvent", "now", result)>>

\* Mutant: the modulus is one too large, so the delta can reach +1.05.
Delta_WideModulus(r) == (r % (RandModulus + 1)) - TempScale

\* (rand() % 41) / 20.0f - 1.0f, in twentieths of a degree.
Delta(r) == (r % RandModulus) - TempScale

\* The rand() values that keep the temperature within the range followed.
AdmissibleRand ==
    {r \in RandDraws :
        /\ temperature + Delta(r) >= InitialTemperature - MaxDrift
        /\ temperature + Delta(r) <= InitialTemperature + MaxDrift}

\* ------------------------------------------------------------------ handlers
\* EventLoop_Run invokes one handler and returns EventLoop_Run_FinishedOneEvent.
Dispatch(handler) ==
    /\ pc = "EventLoop_Run"
    /\ pc' = "LoopAfter"
    /\ runResult' = "EventLoop_Run_FinishedOneEvent"
    /\ dispatched' = handler
    /\ UNCHANGED <<eventLoop, telemetryTimer, i2cFd, sigInstalled, initResult, errno,
                   retval, startup, failedStep, acquired, released, sigDelivered>>

\* Mutant: Button A hands the current value on instead of its negation.
ButtonPressed_NoToggle(button, result) ==
    IF button = UserInterface_Button_A
       THEN /\ Dispatch("ButtonA")
            /\ nButtonA < MaxButtonA
            /\ SetThermometerTelemetryUploadEnabled(telemetryUploadEnabled, result)
            /\ nButtonA' = nButtonA + 1
            /\ UNCHANGED <<exitCode, isConnected, temperature, remoteChanged>>
       ELSE /\ button = UserInterface_Button_B
            /\ Dispatch("ButtonB")
            /\ DeviceMoved(result)
            /\ UNCHANGED <<exitCode, deviceVars, indicator, nButtonA, remoteChanged>>

ButtonPressedCallbackHandler(button, result) ==
    IF button = UserInterface_Button_A
       THEN /\ Dispatch("ButtonA")
            /\ nButtonA < MaxButtonA
            /\ SetThermometerTelemetryUploadEnabled(~telemetryUploadEnabled, result)
            /\ nButtonA' = nButtonA + 1
            /\ UNCHANGED <<exitCode, isConnected, temperature, remoteChanged>>
       ELSE /\ button = UserInterface_Button_B
            /\ Dispatch("ButtonB")
            /\ DeviceMoved(result)
            /\ UNCHANGED <<exitCode, deviceVars, indicator, nButtonA, remoteChanged>>

\* Mutant: a change that came from the cloud is not echoed back to it.
CloudChanged_NoEcho(uploadEnabled, result) ==
    /\ Dispatch("PropertyChanged")
    /\ telemetryUploadEnabled' = uploadEnabled
    /\ indicator' = {uploadEnabled}
    /\ calls' = <<Call("UserInterface_SetStatus", uploadEnabled, "void")>>
    /\ remoteChanged' = TRUE
    /\ UNCHANGED <<exitCode, isConnected, temperature, nButtonA>>

CloudTelemetryUploadEnabledChangedCallbackHandler(uploadEnabled, result) ==
    /\ Dispatch("PropertyChanged")
    /\ SetThermometerTelemetryUploadEnabled(uploadEnabled, result)
    /\ remoteChanged' = TRUE
    /\ UNCHANGED <<exitCode, isConnected, temperature, nButtonA>>

\* Log_Debug("ALERT: %s\n", alertMessage);
DisplayAlertCallbackHandler ==
    /\ Dispatch("Alert")
    /\ calls' = <<>>
    /\ UNCHANGED <<exitCode, deviceVars, indicator, nButtonA, remoteChanged>>

\* Mutant: the device details are sent only on a change to connected.
ConnectionChanged_Dedup(connected, result) ==
    /\ Dispatch("ConnectionChanged")
    /\ isConnected' = connected
    /\ calls' = IF connected /\ ~isConnected
                   THEN <<Call("Cloud_SendDeviceDetails", serialNumber, result)>>
                   ELSE <<>>
    /\ UNCHANGED <<exitCode, telemetryUploadEnabled, temperature, indicator,
                   nButtonA, remoteChanged>>

\* Mutant: losing the connection switches the upload off.
ConnectionChanged_StopsUpload(connected, result) ==
    /\ Dispatch("ConnectionChanged")
    /\ isConnected' = connected
    /\ telemetryUploadEnabled' = (connected /\ telemetryUploadEnabled)
    /\ calls' = IF connected
                   THEN <<Call("Cloud_SendDeviceDetails", serialNumber, result)>>
                   ELSE <<>>
    /\ UNCHANGED <<exitCode, temperature, indicator, nButtonA, remoteChanged>>

ConnectionChangedCallbackHandler(connected, result) ==
    /\ Dispatch("ConnectionChanged")
    /\ isConnected' = connected
    /\ calls' = IF connected
                   THEN <<Call("Cloud_SendDeviceDetails", serialNumber, result)>>
                   ELSE <<>>
    /\ UNCHANGED <<exitCode, telemetryUploadEnabled, temperature, indicator,
                   nButtonA, remoteChanged>>

\* Mutant: the return after a failed ConsumeEventLoopTimerEvent is missing.
TelemetryTimer_NoReturn(consumed, r, result) ==
    /\ Dispatch("Tick")
    /\ exitCode' = IF consumed # 0 THEN ExitCode_TelemetryTimer_Consume ELSE exitCode
    /\ IF isConnected /\ telemetryUploadEnabled
          THEN /\ temperature' = temperature + Delta(r)
               /\ calls' = <<Call("ConsumeEventLoopTimerEvent", "timer", ToString(consumed)),
                             Call("Cloud_SendTelemetry", temperature', result)>>
          ELSE /\ UNCHANGED temperature
               /\ calls' = <<Call("ConsumeEventLoopTimerEvent", "timer", ToString(consumed))>>
    /\ UNCHANGED <<isConnected, telemetryUploadEnabled, indicator, nButtonA, remoteChanged>>

\* Mutant: a failed telemetry send is treated as fatal.
TelemetryTimer_FailedSendFatal(consumed, r, result) ==
    /\ Dispatch("Tick")
    /\ IF consumed # 0
          THEN /\ exitCode' = ExitCode_TelemetryTimer_Consume
               /\ calls' = <<Call("ConsumeEventLoopTimerEvent", "timer", ToString(consumed))>>
               /\ UNCHANGED temperature
          ELSE IF isConnected /\ telemetryUploadEnabled
                  THEN /\ temperature' = temperature + Delta(r)
                       /\ calls' = <<Call("ConsumeEventLoopTimerEvent", "timer", ToString(consumed)),
                                     Call("Cloud_SendTelemetry", temperature', result)>>
                       /\ exitCode' = IF result = Cloud_Result_OK
                                         THEN exitCode
                                         ELSE ExitCode_TelemetryTimer_Consume
                  ELSE /\ UNCHANGED <<temperature, exitCode>>
                       /\ calls' = <<Call("ConsumeEventLoopTimerEvent", "timer", ToString(consumed))>>
    /\ UNCHANGED <<isConnected, telemetryUploadEnabled, indicator, nButtonA, remoteChanged>>

\* Mutant: the tick does not look at isConnected.
TelemetryTimer_IgnoresConnection(consumed, r, result) ==
    /\ Dispatch("Tick")
    /\ IF consumed # 0
          THEN /\ exitCode' = ExitCode_TelemetryTimer_Consume
               /\ calls' = <<Call("ConsumeEventLoopTimerEvent", "timer", ToString(consumed))>>
               /\ UNCHANGED temperature
          ELSE /\ UNCHANGED exitCode
               /\ IF telemetryUploadEnabled
                     THEN /\ temperature' = temperature + Delta(r)
                          /\ calls' = <<Call("ConsumeEventLoopTimerEvent", "timer", ToString(consumed)),
                                        Call("Cloud_SendTelemetry", temperature', result)>>
                     ELSE /\ UNCHANGED temperature
                          /\ calls' = <<Call("ConsumeEventLoopTimerEvent", "timer", ToString(consumed))>>
    /\ UNCHANGED <<isConnected, telemetryUploadEnabled, indicator, nButtonA, remoteChanged>>

TelemetryTimerCallbackHandler(consumed, r, result) ==
    /\ Dispatch("Tick")
    /\ IF consumed # 0
          THEN /\ exitCode' = ExitCode_TelemetryTimer_Consume
               /\ calls' = <<Call("ConsumeEventLoopTimerEvent", "timer", ToString(consumed))>>
               /\ UNCHANGED temperature
          ELSE /\ UNCHANGED exitCode
               /\ IF isConnected /\ telemetryUploadEnabled
                     THEN /\ temperature' = temperature + Delta(r)
                          /\ calls' = <<Call("ConsumeEventLoopTimerEvent", "timer", ToString(consumed)),
                                        Call("Cloud_SendTelemetry", temperature', result)>>
                     ELSE /\ UNCHANGED temperature
                          /\ calls' = <<Call("ConsumeEventLoopTimerEvent", "timer", ToString(consumed))>>
    /\ UNCHANGED <<isConnected, telemetryUploadEnabled, indicator, nButtonA, remoteChanged>>

\* Mutant: a reason already recorded is kept (first wins).
ExitCodeCallback_FirstWins(current, ec) ==
    IF current = ExitCode_Success THEN ec ELSE current

\* exitCode = ec;  the value exitCode holds after ExitCodeCallbackHandler(ec)
\* when it held current before.
ExitCodeCallback(current, ec) == ec

\* exitCode after ExitCodeCallbackHandler was called with each of reasons in turn.
RECURSIVE ReportAll(_, _)
ReportAll(current, reasons) ==
    IF reasons = <<>>
       THEN current
       ELSE ReportAll(ExitCodeCallback(current, Head(reasons)), Tail(reasons))

\* The sequences of reasons reported while one event is handled.
ReportSeqs == UNION {[1..n -> ReportedFailures] : n \in 1..MaxReports}

\* The user interface or the cloud module, handling an event of its own, calls
\* ExitCodeCallbackHandler once or more before EventLoop_Run returns.
ExitCodeCallbackHandler(reasons) ==
    /\ Dispatch("ExitCodeCallback")
    /\ exitCode' = ReportAll(exitCode, reasons)
    /\ calls' = [i \in 1..Len(reasons) |->
                    Call("ExitCodeCallbackHandler", reasons[i], "void")]
    /\ UNCHANGED <<deviceVars, indicator, nButtonA, remoteChanged>>

\* EventLoop_Run returns EventLoop_Run_Failed, errno set (EINTR when a signal
\* interrupted the wait).
EventLoop_Run_Fails(e) ==
    /\ pc = "EventLoop_Run"
    /\ pc' = "LoopAfter"
    /\ runResult' = "EventLoop_Run_Failed"
    /\ errno' = e
    /\ UNCHANGED <<exitCode, deviceVars, resourceVars, sigInstalled, initResult, retval,
                   historyVars, startup, failedStep, acquired, released>>

\* ---------------------------------------------------------------- main loop
\* while (exitCode == ExitCode_Success)
LoopCheck ==
    /\ pc = "LoopCheck"
    /\ pc' = IF exitCode = ExitCode_Success THEN "EventLoop_Run" ELSE "Close"
    /\ UNCHANGED <<exitCode, deviceVars, resourceVars, sigInstalled, initResult, loopVars,
                   historyVars, startup, failedStep, acquired, released>>

\* Mutant: every failure of EventLoop_Run ends the loop, EINTR included.
LoopAfter_EintrFatal ==
    /\ pc = "LoopAfter"
    /\ pc' = "LoopCheck"
    /\ exitCode' = IF runResult = "EventLoop_Run_Failed"
                      THEN ExitCode_Main_EventLoopFail
                      ELSE exitCode
    /\ runResult' = "none"
    /\ UNCHANGED <<deviceVars, resourceVars, sigInstalled, initResult, errno, retval,
                   historyVars, startup, failedStep, acquired, released>>

\* if (result == EventLoop_Run_Failed && errno != EINTR) exitCode = ExitCode_Main_EventLoopFail;
LoopAfter ==
    /\ pc = "LoopAfter"
    /\ pc' = "LoopCheck"
    /\ exitCode' = IF runResult = "EventLoop_Run_Failed" /\ errno # EINTR
                      THEN ExitCode_Main_EventLoopFail
                      ELSE exitCode
    /\ runResult' = "none"
    /\ UNCHANGED <<deviceVars, resourceVars, sigInstalled, initResult, errno, retval,
                   historyVars, startup, failedStep, acquired, released>>

\* ------------------------------------------------------------------ shutdown
\* Mutant: close(fd) without the test of fd.
CloseFd_Unguarded(fd, fdName) == <<fdName>>

\* CloseFdAndPrintError(fd, fdName): close(fd) only if fd >= 0.
CloseFdAndPrintError(fd, fdName) == IF fd >= 0 THEN <<fdName>> ELSE <<>>

\* Mutant: the releases are made in the reverse of the startup order.
ReleaseOrder_Reversed ==
    <<"Cloud">> \o CloseFdAndPrintError(i2cFd, "i2c")
        \o <<"Connection", "UserInterface", "telemetryTimer", "eventLoop">>

\* The release calls of ClosePeripheralsAndHandlers, in the order made.
ReleaseOrder ==
    <<"telemetryTimer", "Cloud", "UserInterface", "Connection", "eventLoop">>
        \o CloseFdAndPrintError(i2cFd, "i2c")

\* DisposeEventLoopTimer(telemetryTimer); Cloud_Cleanup(); UserInterface_Cleanup();
\* Connection_Cleanup(); EventLoop_Close(eventLoop); CloseFdAndPrintError(i2cFd, "i2c");
ClosePeripheralsAndHandlers ==
    /\ pc = "Close"
    /\ pc' = "Return"
    /\ released' = ReleaseOrder
    /\ telemetryTimer' = IF telemetryTimer = "armed" THEN "disposed" ELSE telemetryTimer
    /\ eventLoop' = IF eventLoop = "open" THEN "closed" ELSE eventLoop
    /\ UNCHANGED <<exitCode, deviceVars, i2cFd, indicator, sigInstalled, initResult,
                   loopVars, historyVars, startup, failedStep, acquired>>

\* return exitCode;
\* Mutant: a termination request is reported as a graceful exit.
Return_GracefulZero ==
    /\ pc = "Return"
    /\ pc' = "Done"
    /\ retval' = IF exitCode = ExitCode_TermHandler_SigTerm
                    THEN ExitCode_Success
                    ELSE exitCode
    /\ UNCHANGED <<exitCode, deviceVars, resourceVars, sigInstalled, initResult,
                   runResult, errno, historyVars, startup, failedStep, acquired, released>>

Return ==
    /\ pc = "Return"
    /\ pc' = "Done"
    /\ retval' = exitCode
    /\ UNCHANGED <<exitCode, deviceVars, resourceVars, sigInstalled, initResult,
                   runResult, errno, historyVars, startup, failedStep, acquired, released>>

\* ------------------------------------------------------------ specification
\* One step of main outside EventLoop_Run.
MainStep ==
    \/ \E result \in {ExitCode_Success} \cup OptionsFailures : ParseArgs(result)
    \/ Init_sigaction
    \/ \E ok \in BOOLEAN : Init_EventLoop_Create(ok)
    \/ \E ok \in BOOLEAN : Init_CreateTimer(ok)
    \/ \E ec \in {ExitCode_Success} \cup UserInterfaceFailures : Init_UserInterface(ec)
    \/ \E fd \in {-1, OpenFd} : Init_I2COpen(fd)
    \/ \E result \in {0, -1} : Init_SetBusSpeed(result)
    \/ \E result \in {0, -1} : Init_SetTimeout(result)
    \/ \E result \in {0, -1} : Init_SetDefaultTarget(result)
    \/ \E result \in {ExitCode_Success} \cup CloudInitFailures : Init_Cloud(result)
    \/ AssignInit
    \/ LoopCheck
    \/ LoopAfter
    \/ ClosePeripheralsAndHandlers
    \/ Return

\* The periodic timer fires.
TimerTick ==
    \E consumed \in {0, -1}, r \in AdmissibleRand, result \in CloudResults :
        TelemetryTimerCallbackHandler(consumed, r, result)

\* What EventLoop_Run does with the next event.
EventLoopRun ==
    \/ TimerTick
    \/ \E button \in Buttons, result \in CloudResults :
           ButtonPressedCallbackHandler(button, result)
    \/ \E uploadEnabled \in BOOLEAN, result \in CloudResults :
           CloudTelemetryUploadEnabledChangedCallbackHandler(uploadEnabled, result)
    \/ DisplayAlertCallbackHandler
    \/ \E connected \in BOOLEAN, result \in CloudResults :
           ConnectionChangedCallbackHandler(connected, result)
    \/ \E reasons \in ReportSeqs : ExitCodeCallbackHandler(reasons)
    \/ \E e \in Errnos : EventLoop_Run_Fails(e)

Next == MainStep \/ EventLoopRun \/ TerminationHandler

Spec == Init /\ [][Next]_vars

\* The scheduler runs main whenever it can take a step, and the periodic timer
\* keeps firing: as long as main keeps coming back to EventLoop_Run, ticks keep
\* being dispatched.
FairSpec == Spec /\ WF_vars(MainStep) /\ SF_vars(TimerTick)

\* -------------------------------------------------------------- properties
\* The calls the last handler made to op.
CallsTo(op) == SelectSeq(calls, LAMBDA c : c.op = op)
NumCalls(op) == Len(CallsTo(op))

\* The outbound calls (to the cloud module) the last handler made.
OutboundOps == {"Cloud_SendTelemetry", "Cloud_SendThermometerMovedEvent",
                "Cloud_SendThermometerTelemetryUploadEnabledChangedEvent",
                "Cloud_SendDeviceDetails"}
Outbound == SelectSeq(calls, LAMBDA c : c.op \in OutboundOps)

\* A step in which EventLoop_Run invokes the handler named h.
Handles(h) ==
    /\ pc = "EventLoop_Run"
    /\ runResult' = "EventLoop_Run_FinishedOneEvent"
    /\ dispatched' = h

\* C1: with no remote property change, telemetryUploadEnabled is true exactly
\* when the number of Button A presses handled is odd, and each Button A press
\* makes exactly one UserInterface_SetStatus call before the handler returns.
C1_ButtonAParity ==
    /\ ~remoteChanged => (telemetryUploadEnabled <=> nButtonA % 2 = 1)
    /\ dispatched = "ButtonA" => NumCalls("UserInterface_SetStatus") = 1

C1_Witness ==
    /\ dispatched = "ButtonA"
    /\ ~remoteChanged
    /\ nButtonA >= 2
    /\ nButtonA % 2 = 0
    /\ ~telemetryUploadEnabled

\* The timer event of the last tick was consumed (ConsumeEventLoopTimerEvent
\* returned 0).
TickConsumed == dispatched = "Tick" /\ calls[1].result = ToString(0)

\* C2 as claimed: every tick attempts send_telemetry exactly once if connected
\* and upload is enabled, and zero times otherwise.
C2_EveryTickSends ==
    dispatched = "Tick" =>
        NumCalls("Cloud_SendTelemetry") =
            IF isConnected /\ telemetryUploadEnabled THEN 1 ELSE 0

\* C2, amended: a tick whose timer event was consumed attempts send_telemetry
\* exactly once if connected and upload is enabled and zero times otherwise; a
\* tick whose timer event could not be consumed attempts none; a tick while
\* disconnected makes no outbound call at all.
C2_ConsumedTickSends ==
    dispatched = "Tick" =>
        /\ NumCalls("Cloud_SendTelemetry") =
               IF TickConsumed /\ isConnected /\ telemetryUploadEnabled THEN 1 ELSE 0
        /\ ~isConnected => Outbound = <<>>

C2_Witness ==
    /\ dispatched = "Tick"
    /\ TickConsumed
    /\ isConnected
    /\ telemetryUploadEnabled
    /\ NumCalls("Cloud_SendTelemetry") = 1

\* C3: every connection notification with connected = true makes exactly one
\* Cloud_SendDeviceDetails call, carrying the fixed serial number, and no other
\* outbound call, also when the device was connected already; a notification
\* with connected = false makes no outbound call.
C3_ConnectionReport ==
    [][Handles("ConnectionChanged") =>
          IF isConnected'
             THEN /\ Len(Outbound') = 1
                  /\ Outbound'[1].op = "Cloud_SendDeviceDetails"
                  /\ Outbound'[1].arg = "TEMPMON-01234"
             ELSE Outbound' = <<>>]_vars

\* A connect notification was handled while connected (the second of two in a
\* row, or any later one) and the report went out.
C3_Witness ==
    /\ dispatched = "ConnectionChanged"
    /\ isConnected
    /\ NumCalls("Cloud_SendDeviceDetails") = 1

\* C4: every step that writes telemetryUploadEnabled (Button A or a remote
\* property change) makes, in that step, exactly one indicator update and
\* exactly one property-echo attempt, both with the new value, and whatever
\* the echo returns the flag and the indicator hold the new value afterwards.
C4_MutationPath ==
    [][(telemetryUploadEnabled' # telemetryUploadEnabled
           \/ Handles("ButtonA") \/ Handles("PropertyChanged")) =>
          /\ dispatched' \in {"ButtonA", "PropertyChanged"}
          /\ Len(calls') = 2
          /\ calls'[1].op = "UserInterface_SetStatus"
          /\ calls'[1].arg = telemetryUploadEnabled'
          /\ calls'[2].op = "Cloud_SendThermometerTelemetryUploadEnabledChangedEvent"
          /\ calls'[2].arg = telemetryUploadEnabled'
          /\ calls'[2].result \in CloudResults
          /\ indicator' = {telemetryUploadEnabled'}
          /\ Handles("ButtonA") => telemetryUploadEnabled' = ~telemetryUploadEnabled]_vars

\* The echo of a change failed and the new value stayed.
C4_Witness ==
    /\ dispatched = "ButtonA"
    /\ calls[2].result = Cloud_Result_NoNetwork
    /\ telemetryUploadEnabled
    /\ indicator = {TRUE}

\* What an observer of the last handler sees of its calls: each function
\* called and its argument.
Observed == [i \in 1..Len(calls) |-> <<calls[i].op, calls[i].arg>>]

\* C5 as claimed: a change that comes from the remote side sends no property
\* echo back to it.
C5_RemoteChangeNotEchoed ==
    dispatched = "PropertyChanged" =>
        NumCalls("Cloud_SendThermometerTelemetryUploadEnabledChangedEvent") = 0

\* C5, amended: a remote property change and a Button A press that produce the
\* same target value are observably the same: whichever of the two ran last,
\* the calls it made are one indicator update and one property echo with the
\* value telemetryUploadEnabled now holds; the echo is not skipped for a change
\* that came from the remote side.
C5_SameObservables ==
    dispatched \in {"ButtonA", "PropertyChanged"} =>
        Observed = <<<<"UserInterface_SetStatus", telemetryUploadEnabled>>,
                     <<"Cloud_SendThermometerTelemetryUploadEnabledChangedEvent",
                       telemetryUploadEnabled>>>>

C5_Witness ==
    /\ dispatched = "PropertyChanged"
    /\ telemetryUploadEnabled
    /\ NumCalls("Cloud_SendThermometerTelemetryUploadEnabledChangedEvent") = 1

\* C6 as claimed: once exitCode holds a non-success value no later write puts
\* ExitCode_Success back.
C6_ExitCodeMonotonic ==
    [][exitCode # ExitCode_Success => exitCode' # ExitCode_Success]_vars

\* C7 as claimed: a termination signal delivered at any point after the
\* handler is installed leads to the run loop ending, shutdown running and
\* main returning, given that the timer keeps ticking.
C7_SignalEndsRun == sigDelivered ~> (pc = "Done" /\ released # <<>>)

\* A handler's outbound call returned something other than Cloud_Result_OK.
FailedSend == \E i \in 1..Len(calls) :
                 calls[i].op \in OutboundOps /\ calls[i].result # Cloud_Result_OK

Handlers == {"Tick", "ButtonA", "ButtonB", "PropertyChanged", "ConnectionChanged",
             "Alert", "ExitCodeCallback"}

StartupOrder == <<"Init_sigaction", "Init_EventLoop_Create", "Init_CreateTimer",
                  "Init_UserInterface", "Init_I2COpen", "Init_SetBusSpeed",
                  "Init_SetTimeout", "Init_SetDefaultTarget", "Init_Cloud">>

\* The exit codes a failure of the startup step stands for.
FailureCodes(step) ==
    CASE step = "Init_EventLoop_Create" -> {"ExitCode_Init_EventLoop"}
      [] step = "Init_CreateTimer" -> {"ExitCode_Init_TelemetryTimer"}
      [] step = "Init_UserInterface" -> UserInterfaceFailures
      [] step = "Init_I2COpen" -> {"ExitCode_Init_OpenMaster"}
      [] step = "Init_SetBusSpeed" -> {"ExitCode_Init_SetBusSpeed"}
      [] step = "Init_SetTimeout" -> {"ExitCode_Init_SetTimeout"}
      [] step = "Init_SetDefaultTarget" -> {"ExitCode_Init_SetDefaultTarget"}
      [] step = "Init_Cloud" -> CloudInitFailures
      [] OTHER -> {}

\* After a startup step failed: no later startup step has run, no handler has
\* been dispatched and main never waits in EventLoop_Run.
FailedStartupStops ==
    /\ startup = SubSeq(StartupOrder, 1, Len(startup))
    /\ startup[Len(startup)] = failedStep
    /\ dispatched = "none"
    /\ pc \in {"AssignInit", "LoopCheck", "Close", "Return", "Done"}
    /\ pc = "Done" => released # <<>>

\* C9 as claimed: when a startup step fails no later step runs, no event is
\* dispatched, shutdown runs and main returns the exit code of that step.
C9_ExitIsFailingStep ==
    failedStep # "none" =>
        /\ FailedStartupStops
        /\ pc = "Done" => retval \in FailureCodes(failedStep)

\* C9, amended: when a startup step fails no later step runs, no event is
\* dispatched, shutdown runs, and main returns the exit code of that step
\* unless a termination signal delivered after main stored the startup result
\* replaced it, in which case main returns ExitCode_TermHandler_SigTerm.
C9_StartupFailure ==
    failedStep # "none" =>
        /\ FailedStartupStops
        /\ pc = "Done" =>
              \/ retval \in FailureCodes(failedStep)
              \/ retval = ExitCode_TermHandler_SigTerm /\ sigDelivered
        /\ (pc \in {"LoopCheck", "Close", "Return", "Done"} /\ ~sigDelivered) =>
              exitCode \in FailureCodes(failedStep)

C9_Witness ==
    /\ pc = "Done"
    /\ failedStep = "Init_I2COpen"
    /\ retval = ExitCode_Init_OpenMaster
    /\ released # <<>>

RECURSIVE Reverse(_)
Reverse(seq) == IF seq = <<>> THEN <<>> ELSE Reverse(Tail(seq)) \o <<Head(seq)>>

\* The members of seq.
Range(seq) == {seq[i] : i \in 1..Len(seq)}

\* C10 as claimed: shutdown releases the acquired resources in the exact
\* reverse of the order in which startup acquired them.
C10_ReverseOfAcquisition ==
    released # <<>> =>
        SelectSeq(released, LAMBDA x : x \in Range(acquired)) = Reverse(acquired)

\* C10, amended: whatever the reason the run loop stopped, shutdown makes its
\* release calls in one fixed order: timer, remote channel, button/UI source,
\* connection, dispatch loop, and last the sensor bus if it was opened. That
\* order is not the reverse of the startup order.
C10_FixedReleaseOrder ==
    /\ pc \in {"Return", "Done"} /\ sigInstalled <=> released # <<>>
    /\ released # <<>> =>
          /\ SubSeq(released, 1, 5) =
                <<"telemetryTimer", "Cloud", "UserInterface", "Connection", "eventLoop">>
          /\ Len(released) = IF "i2c" \in Range(acquired) THEN 6 ELSE 5
          /\ Len(released) = 6 => released[6] = "i2c"

\* Shutdown after a complete startup and a run loop that a reported failure
\* ended.
C10_Witness ==
    /\ pc = "Done"
    /\ Len(acquired) = 5
    /\ Len(released) = 6
    /\ retval \in ReportedFailures

\* The resource a release call is for (Connection_Cleanup belongs to the
\* remote channel that Cloud_Initialize brings up).
ResourceOf(release) == IF release = "Connection" THEN "Cloud" ELSE release

\* C11 as claimed: after a startup failure no release call is made for a
\* resource that was not acquired.
C11_OnlyAcquiredReleased ==
    (failedStep # "none" /\ released # <<>>) =>
        \A i \in 1..Len(released) : ResourceOf(released[i]) \in Range(acquired)

\* C11, amended: after a startup failure shutdown still makes every release
\* call for the timer, the remote channel, the button/UI source, the connection
\* and the dispatch loop, acquired or not (the handle passed is the one never
\* set, NULL for the loop and the timer); only the close of the sensor bus is
\* made conditionally, exactly when the bus was opened.
C11_OnlySensorCloseGuarded ==
    (failedStep # "none" /\ released # <<>>) =>
        /\ {"telemetryTimer", "Cloud", "UserInterface", "Connection", "eventLoop"}
               \subseteq Range(released)
        /\ "i2c" \in Range(released) <=> "i2c" \in Range(acquired)
        /\ "i2c" \in Range(released) <=> i2cFd >= 0
        /\ "eventLoop" \notin Range(acquired) => eventLoop = "NULL"
        /\ "telemetryTimer" \notin Range(acquired) => telemetryTimer = "NULL"

\* Shutdown after the very first acquisition failed: nothing was acquired and
\* five release calls were made.
C11_Witness ==
    /\ failedStep = "Init_EventLoop_Create"
    /\ acquired = <<>>
    /\ Len(released) = 5
    /\ pc = "Done"

\* C12: fatal reports are last-wins: after the ExitCodeCallbackHandler calls
\* made while one event is handled, exitCode is the reason of the last call,
\* whatever it held before.
C12_LastReportWins ==
    [][Handles("ExitCodeCallback") =>
          /\ Len(calls') >= 1
          /\ \A i \in 1..Len(calls') : calls'[i].op = "ExitCodeCallbackHandler"
          /\ exitCode' = calls'[Len(calls')].arg]_vars

\* Two different reasons were reported in a row and the second one stands.
C12_Witness ==
    /\ dispatched = "ExitCodeCallback"
    /\ Len(calls) >= 2
    /\ calls[1].arg # calls[Len(calls)].arg
    /\ exitCode = calls[Len(calls)].arg

\* C13 as claimed: once exitCode is not ExitCode_Success no event handler is
\* invoked any more.
C13_NoHandlerAfterExitSet ==
    [][~(exitCode # ExitCode_Success /\ \E h \in Handlers : Handles(h))]_vars

\* C14: the temperature changes only in a timer tick taken while connected
\* with upload enabled (its timer event consumed), and then by a delta of
\* rand() % 41 / 20 - 1, between -1.0 and +1.0 (at most TempScale twentieths
\* either way); the value sent is the new temperature, within 1.0 of the
\* previous one; every other handler leaves the temperature unchanged.
C14_MeasurementDelta ==
    [][/\ \A r \in 0..(2 * RandModulus) : Delta(r) \in -TempScale..TempScale
       /\ temperature' # temperature =>
             /\ Handles("Tick")
             /\ isConnected /\ telemetryUploadEnabled
             /\ calls'[1].result = ToString(0)
       /\ temperature' - temperature \in -TempScale..TempScale
       /\ (Handles("Tick") /\ NumCalls("Cloud_SendTelemetry")' = 1) =>
             calls'[2].arg = temperature'
       /\ (\E h \in Handlers \ {"Tick"} : Handles(h)) => temperature' = temperature]_vars

\* A tick raised the temperature to a full degree above its initial value
\* and sent it.
C14_Witness ==
    /\ dispatched = "Tick"
    /\ NumCalls("Cloud_SendTelemetry") = 1
    /\ temperature = InitialTemperature + TempScale
    /\ calls[2].arg = temperature

\* C15: a tick whose timer event cannot be consumed sets exitCode to
\* ExitCode_TelemetryTimer_Consume and returns, the temperature unchanged and
\* no outbound call made, also when connected with upload enabled; after it
\* main dispatches no further handler and does not go back into EventLoop_Run.
C15_ConsumeFailure ==
    [][/\ (Handles("Tick") /\ calls'[1].result # ToString(0)) =>
             /\ exitCode' = ExitCode_TelemetryTimer_Consume
             /\ temperature' = temperature
             /\ Len(calls') = 1
             /\ Outbound' = <<>>
       /\ (dispatched = "Tick" /\ calls[1].result # ToString(0)) =>
             /\ ~(\E h \in Handlers : Handles(h))
             /\ pc' # "EventLoop_Run"
             /\ exitCode' # ExitCode_Success]_vars

\* The consumption failed while connected with upload enabled, and main
\* returned the timer-consume code.
C15_Witness ==
    /\ dispatched = "Tick"
    /\ calls[1].result # ToString(0)
    /\ isConnected
    /\ telemetryUploadEnabled
    /\ pc = "Done"
    /\ retval = ExitCode_TelemetryTimer_Consume

\* The step of main that looks at what EventLoop_Run returned.
AfterRun == pc = "LoopAfter" /\ pc' = "LoopCheck"

\* C16: when EventLoop_Run fails with errno EINTR, exitCode is left as it was
\* and, if it is still ExitCode_Success, main goes back into EventLoop_Run;
\* when it fails with any other errno, exitCode becomes
\* ExitCode_Main_EventLoopFail and main leaves the loop for shutdown.
C16_InterruptedRun ==
    [][/\ (AfterRun /\ runResult = "EventLoop_Run_Failed" /\ errno = EINTR) =>
             exitCode' = exitCode
       /\ (AfterRun /\ runResult = "EventLoop_Run_Failed" /\ errno # EINTR) =>
             exitCode' = ExitCode_Main_EventLoopFail
       /\ (pc = "LoopCheck" /\ pc' # pc) =>
             pc' = IF exitCode = ExitCode_Success THEN "EventLoop_Run" ELSE "Close"
       /\ (exitCode = ExitCode_Main_EventLoopFail /\ pc = "LoopCheck") =>
             pc' \in {"LoopCheck", "Close"}]_vars

\* After an EINTR failure left exitCode alone, a later event was dispatched.
C16_Witness ==
    /\ errno = EINTR
    /\ pc = "LoopAfter"
    /\ runResult = "EventLoop_Run_FinishedOneEvent"
    /\ dispatched = "Tick"
    /\ exitCode = ExitCode_Success

\* C17: a connection change leaves telemetryUploadEnabled as it was; a tick, a
\* button press, a remote property change and a remote command leave
\* isConnected as it was; no step other than ConnectionChangedCallbackHandler
\* writes isConnected.
C17_IndependentAxes ==
    [][/\ Handles("ConnectionChanged") =>
             telemetryUploadEnabled' = telemetryUploadEnabled
       /\ (\E h \in {"Tick", "ButtonA", "ButtonB", "PropertyChanged", "Alert"} :
              Handles(h)) => isConnected' = isConnected
       /\ isConnected' # isConnected => Handles("ConnectionChanged")]_vars

\* The connection was lost while the upload was enabled, and the upload is
\* still enabled.
C17_Witness ==
    /\ dispatched = "ConnectionChanged"
    /\ ~isConnected
    /\ calls = <<>>
    /\ telemetryUploadEnabled
    /\ nButtonA > 0

\* C18: once UserInterface_Initialise has succeeded, whenever main is between
\* two dispatches the last value given to UserInterface_SetStatus is
\* telemetryUploadEnabled, whatever the handlers dispatched and whatever the
\* echo returned.
C18_IndicatorFollowsFlag ==
    /\ "UserInterface" \in Range(acquired) => indicator = {telemetryUploadEnabled}
    /\ indicator # {} => "UserInterface" \in Range(acquired)

\* The flag was switched on by a change whose echo failed.
C18_Witness ==
    /\ pc = "LoopAfter"
    /\ dispatched \in {"ButtonA", "PropertyChanged"}
    /\ FailedSend
    /\ telemetryUploadEnabled
    /\ indicator = {TRUE}

\* C19: when main has returned after calling InitPeripheralsAndHandlers, the
\* value it returned is not ExitCode_Success.
C19_NeverReturnsSuccess ==
    (pc = "Done" /\ sigInstalled) => retval # ExitCode_Success

\* main returned after the run loop was ended by the termination signal.
C19_Witness ==
    /\ pc = "Done"
    /\ sigInstalled
    /\ dispatched # "none"
    /\ retval = ExitCode_TermHandler_SigTerm

====
